---------------------------- MODULE Spec2Model ----------------------------
(***************************************************************************)
(* A model of the numeric utility layer of pyspectral                      *)
(* (src/pyspectral/utils.py) and of the FY-4 AGRI reader                   *)
(* (src/rsr_convert_scripts/agri_rsr.py).                                  *)
(*                                                                         *)
(* The utilities are functions of their arguments.  A behaviour of the     *)
(* model is one caller: Init draws the function it calls (fn), the         *)
(* argument objects it holds (args) and what the environment fixes for it  *)
(* (env); every call appends the arguments it was given and the result it  *)
(* returned to log.  self is the AGRIRSR object under construction.        *)
(***************************************************************************)
EXTENDS Integers, Sequences, FiniteSets

VARIABLES fn, args, env, self, log

vars == <<fn, args, env, self, log>>

(***************************************************************************)
(* Bounds of the model.                                                    *)
(***************************************************************************)
MaxLen == 3        \* samples of an (x, y) pair given to sort_data
MaxCalls == 2      \* calls one caller makes

XValues == {1, 2, 3}
YValues == {7, 8}

NoObject == [none |-> TRUE]

(***************************************************************************)
(* numpy array operations on one-dimensional arrays (sequences).           *)
(***************************************************************************)
\* a[idxs]: indexing with an integer array builds a new array
Take(a, idxs) == [i \in 1..Len(idxs) |-> a[idxs[i]]]

\* np.diff(a)
Diff(a) == [i \in 1..(Len(a) - 1) |-> a[i + 1] - a[i]]

\* a[::-1]
Reversed(a) == [i \in 1..Len(a) |-> a[Len(a) + 1 - i]]

RECURSIVE Compress(_, _)
\* the elements of a at the positions where mask is True, in order
Compress(a, mask) ==
    IF a = <<>> THEN <<>>
    ELSE (IF Head(mask) THEN <<Head(a)>> ELSE <<>>) \o Compress(Tail(a), Tail(mask))

\* a[mask] is an IndexError when the boolean mask is not as long as a
MaskFits(a, mask) == Len(mask) = Len(a)

Permutations(n) == {p \in [1..n -> 1..n] : \A i, j \in 1..n : p[i] = p[j] => i = j}

\* the index arrays np.argsort may return for x: numpy's default sort is
\* not stable, so any order of equal elements is possible
SortingPermutations(x) ==
    {p \in Permutations(Len(x)) :
        \A i \in 1..(Len(x) - 1) : x[p[i]] <= x[p[i + 1]]}

(***************************************************************************)
(* sort_data                                                               *)
(***************************************************************************)
\* np.argsort(x_vals): the index array this numpy build returns, fixed for
\* the caller's x_vals in Init
argsort(x_vals) == env.argsort

\* sort_data with the y values left in their input order
sort_data_y_not_reordered(x_vals, y_vals) ==
    LET idxs == argsort(x_vals)
        xs == Take(x_vals, idxs)
        ys == y_vals
        mask == <<TRUE>> \o [i \in 1..(Len(xs) - 1) |-> Diff(xs)[i] > 0]
    IN  IF MaskFits(xs, mask)
        THEN [exc |-> "", x |-> Compress(xs, mask), y |-> Compress(ys, mask)]
        ELSE [exc |-> "IndexError", x |-> <<>>, y |-> <<>>]

\* the result of sort_data: exc names the exception raised, "" on return
sort_data(x_vals, y_vals) ==
    LET idxs == argsort(x_vals)
        xs == Take(x_vals, idxs)
        ys == Take(y_vals, idxs)
        mask == <<TRUE>> \o [i \in 1..(Len(xs) - 1) |-> Diff(xs)[i] > 0]
    IN  IF MaskFits(xs, mask)
        THEN [exc |-> "", x |-> Compress(xs, mask), y |-> Compress(ys, mask)]
        ELSE [exc |-> "IndexError", x |-> <<>>, y |-> <<>>]

\* sort_data sorting the caller's arrays in place
sort_data_arguments_in_place(a) ==
    [x_vals |-> Take(a.x_vals, argsort(a.x_vals)),
     y_vals |-> Take(a.y_vals, argsort(a.x_vals))]

\* the caller's argument objects after the call: sort_data only rebinds its
\* local names to new arrays
sort_data_arguments(a) == a

InitSortData ==
    /\ fn = "sort_data"
    /\ \E n \in 0..MaxLen :
         \E xv \in [1..n -> XValues], yv \in [1..n -> YValues] :
            /\ args = [x_vals |-> xv, y_vals |-> yv]
            /\ \E p \in SortingPermutations(xv) : env = [argsort |-> p]
    /\ self = NoObject
    /\ log = <<>>

CallSortData ==
    /\ fn = "sort_data"
    /\ Len(log) < MaxCalls
    /\ log' = Append(log, [args |-> args, ret |-> sort_data(args.x_vals, args.y_vals)])
    /\ args' = sort_data_arguments(args)
    /\ UNCHANGED <<fn, env, self>>

(***************************************************************************)
(* convert2wavenumber                                                      *)
(*                                                                         *)
(* An rsr data set maps channel -> detector -> key -> value.  A value is   *)
(* an array, [type |-> "ndarray", val |-> <sequence>], or a nested dict of *)
(* arrays, [type |-> "dict", val |-> <name -> sequence>].  Wavelengths are *)
(* whole micrometers that divide 10000, so that 1/(1e-4 * w) = 10000/w is  *)
(* a whole number of cm-1.                                                 *)
(***************************************************************************)
ndarray(a) == [type |-> "ndarray", val |-> a]
dict(d) == [type |-> "dict", val |-> d]

\* 1. / (1e-4 * w)
Wnum(w) == 10000 \div w

\* the wavenumbers left in the order of the wavelengths
wavenumber_entry_not_reversed(wavelength) ==
    [i \in 1..Len(wavelength) |-> Wnum(wavelength[i])]

\* retv[chname][det]['wavenumber']
wavenumber_entry(wavelength) ==
    LET wnum == [i \in 1..Len(wavelength) |-> Wnum(wavelength[i])]
    IN  Reversed(wnum)

\* the arrays of a nested dict left as they are
dict_entry_not_reversed(d) == d

\* retv[chname][det][sat] of a nested dict
dict_entry(d) == [name \in DOMAIN d |-> Reversed(d[name])]

\* retv[chname][det][sat] of an array
array_entry(resp) == Reversed(resp)

\* retv[chname][det]: the keys of the detector are taken one by one
convert_detector(d) ==
    LET keys == {IF sat = "wavelength" THEN "wavenumber" ELSE sat : sat \in DOMAIN d}
    IN  [k \in keys |->
            IF k = "wavenumber" /\ "wavelength" \in DOMAIN d
            THEN ndarray(wavenumber_entry(d["wavelength"].val))
            ELSE IF d[k].type = "dict"
                 THEN dict(dict_entry(d[k].val))
                 ELSE ndarray(array_entry(d[k].val))]

convert2wavenumber(rsr) ==
    LET retv == [chname \in DOMAIN rsr |->
                    [det \in DOMAIN rsr[chname] |-> convert_detector(rsr[chname][det])]]
        unit == "cm-1"
        si_scale == 100
    IN  <<retv, [unit |-> unit, si_scale |-> si_scale]>>

\* the caller's rsr after the call: the results are built in a new dict
convert2wavenumber_arguments(a) == a

MaxSamples == 2    \* samples of each array of an rsr data set
WaveValues == {-1, 1, 2, 5}
RespValues == {0, 1}

InitConvert ==
    /\ fn = "convert2wavenumber"
    /\ \E n \in 0..MaxSamples :
         \E wave \in [1..n -> WaveValues], resp \in [1..n -> RespValues],
            resp2 \in [1..n -> RespValues] :
            args = [rsr |->
                [chname \in {"ch1", "ch2"} |->
                    IF chname = "ch1"
                    THEN [det \in {"det-1", "det-2"} |->
                            IF det = "det-1"
                            THEN [sat \in {"wavelength", "response"} |->
                                    IF sat = "wavelength" THEN ndarray(wave)
                                    ELSE ndarray(resp)]
                            ELSE [sat \in {"wavelength", "NOAA-19"} |->
                                    IF sat = "wavelength" THEN ndarray(wave)
                                    ELSE dict([name \in {"response", "std"} |->
                                                IF name = "response" THEN resp2
                                                ELSE resp])]]
                    ELSE [det \in {"det-1"} |->
                            [sat \in {"wavelength", "response"} |->
                                IF sat = "wavelength" THEN ndarray(wave)
                                ELSE ndarray(resp2)]]]]
    /\ env = NoObject
    /\ self = NoObject
    /\ log = <<>>

CallConvert ==
    /\ fn = "convert2wavenumber"
    /\ Len(log) < MaxCalls
    /\ log' = Append(log, [args |-> args, ret |-> convert2wavenumber(args.rsr)])
    /\ args' = convert2wavenumber_arguments(args)
    /\ UNCHANGED <<fn, env, self>>

(***************************************************************************)
(* get_central_wave                                                        *)
(*                                                                         *)
(* Samples are whole numbers and the quotient is kept as a fraction in     *)
(* lowest terms, [num, den] with den >= 0; den = 0 is the nan or inf that  *)
(* numpy's division by zero gives.  A scalar weight is the one-element     *)
(* array <<w>>, which numpy broadcasts as it does the scalar.              *)
(***************************************************************************)
Abs(n) == IF n < 0 THEN -n ELSE n

Sign(n) == IF n < 0 THEN -1 ELSE IF n > 0 THEN 1 ELSE 0

RECURSIVE GCD(_, _)
GCD(a, b) == IF b = 0 THEN a ELSE GCD(b, a % b)

\* n / d
Fraction(n, d) ==
    IF d = 0 THEN [num |-> Sign(n), den |-> 0]
    ELSE LET g == GCD(Abs(n), Abs(d))
         IN  [num |-> Sign(d) * (n \div g), den |-> Abs(d) \div g]

\* a * b of two arrays, one of which may be broadcast from a single element
Mul(a, b) ==
    LET n == IF Len(a) = 1 THEN Len(b) ELSE Len(a)
        at(v, i) == IF Len(v) = 1 THEN v[1] ELSE v[i]
    IN  [i \in 1..n |-> at(a, i) * at(b, i)]

RECURSIVE SumSeq(_)
SumSeq(a) == IF a = <<>> THEN 0 ELSE Head(a) + SumSeq(Tail(a))

\* 2 * np.trapz(y, x): the sum of diff(x) * (y[1:] + y[:-1]); the halves of
\* the two integrals cancel in the quotient of get_central_wave
Trapz2(y, x) ==
    SumSeq([i \in 1..(Len(x) - 1) |-> Diff(x)[i] * (y[i + 1] + y[i])])

\* the weight left out of the numerator
get_central_wave_unweighted_numerator(wav, resp, weight) ==
    Fraction(Trapz2(Mul(resp, wav), wav),
             Trapz2(Mul(resp, weight), wav))

get_central_wave(wav, resp, weight) ==
    Fraction(Trapz2(Mul(Mul(resp, wav), weight), wav),
             Trapz2(Mul(resp, weight), wav))

\* the caller's arrays after the call: every product is a new array
get_central_wave_arguments(a) == a

MaxWav == 3        \* samples of a curve given to get_central_wave
WavValues == {1, 2, 4}
CurveValues == {0, 1}
ScalarWeights == {1, 2}
ArrayWeights == {-1, 2}
ScaleFactors == {2, 3}

InitCentralWave ==
    /\ fn = "get_central_wave"
    /\ \E n \in 0..MaxWav :
         \E wv \in [1..n -> WavValues], rv \in [1..n -> CurveValues],
            wt \in [1..n -> ArrayWeights] \cup {<<w>> : w \in ScalarWeights} :
            args = [wav |-> wv, resp |-> rv, weight |-> wt]
    /\ env = NoObject
    /\ self = NoObject
    /\ log = <<>>

CallCentralWave ==
    /\ fn = "get_central_wave"
    /\ Len(log) < MaxCalls
    /\ log' = Append(log, [args |-> args,
                           ret |-> get_central_wave(args.wav, args.resp, args.weight)])
    /\ args' = get_central_wave_arguments(args)
    /\ UNCHANGED <<fn, env, self>>

\* between two calls the caller multiplies its weight by a positive constant
ScaleWeight ==
    /\ fn = "get_central_wave"
    /\ Len(log) = 1
    /\ args = log[1].args
    /\ \E k \in ScaleFactors :
         args' = [args EXCEPT !.weight = [i \in 1..Len(@) |-> k * @[i]]]
    /\ UNCHANGED <<fn, env, self, log>>

(***************************************************************************)
(* get_rayleigh_reflectance                                                *)
(*                                                                         *)
(* The angles are those whose secant is a whole number.  parms is indexed  *)
(* from 0 as in the source.  env.azidiff is the relative azimuth           *)
(* difference angle of the scene, which the docstring names and the        *)
(* function is not given.                                                  *)
(***************************************************************************)
Angles == {0, 60, 120, 180}

\* 1. / np.cos(np.deg2rad(a))
Secant(a) == CASE a = 0 -> 1 [] a = 60 -> 2 [] a = 120 -> -2 [] a = 180 -> -1

\* the last cross term with the exponents of parms[18]
get_rayleigh_reflectance_repeated_term(parms, sunz, satz) ==
    LET sec == Secant(satz)
        sunsec == Secant(sunz)
    IN  (parms[0] +
         parms[1] * sunsec +
         parms[2] * sunsec ^ 2 +
         parms[3] * sunsec ^ 3 +
         parms[4] * sunsec ^ 4 +
         parms[5] * sunsec ^ 5 +
         parms[6] * sec +
         parms[7] * sec ^ 2 +
         parms[8] * sec ^ 3 +
         parms[9] * sec ^ 4 +
         parms[10] * sec ^ 5 +
         parms[11] * sunsec * sec +
         parms[12] * sunsec * sec ^ 2 +
         parms[13] * sunsec * sec ^ 3 +
         parms[14] * sunsec * sec ^ 4 +
         parms[15] * sunsec ^ 2 * sec +
         parms[16] * sunsec ^ 2 * sec ^ 2 +
         parms[17] * sunsec ^ 2 * sec ^ 3 +
         parms[18] * sunsec ^ 3 * sec +
         parms[19] * sunsec ^ 3 * sec ^ 2 +
         parms[20] * sunsec ^ 3 * sec)

get_rayleigh_reflectance(parms, sunz, satz) ==
    LET sec == Secant(satz)
        sunsec == Secant(sunz)
        res == (parms[0] +
                parms[1] * sunsec +
                parms[2] * sunsec ^ 2 +
                parms[3] * sunsec ^ 3 +
                parms[4] * sunsec ^ 4 +
                parms[5] * sunsec ^ 5 +
                parms[6] * sec +
                parms[7] * sec ^ 2 +
                parms[8] * sec ^ 3 +
                parms[9] * sec ^ 4 +
                parms[10] * sec ^ 5 +
                parms[11] * sunsec * sec +
                parms[12] * sunsec * sec ^ 2 +
                parms[13] * sunsec * sec ^ 3 +
                parms[14] * sunsec * sec ^ 4 +
                parms[15] * sunsec ^ 2 * sec +
                parms[16] * sunsec ^ 2 * sec ^ 2 +
                parms[17] * sunsec ^ 2 * sec ^ 3 +
                parms[18] * sunsec ^ 3 * sec +
                parms[19] * sunsec ^ 3 * sec ^ 2 +
                parms[20] * sunsec ^ 4 * sec)
    IN  res

\* the caller's parms and angles after the call
get_rayleigh_reflectance_arguments(a) == a

NParms == 21
MaxCoef == 2       \* largest coefficient of a parameter vector
AziValues == {0, 3}

\* the parameter vectors with one non-zero coefficient, which span all of
\* them (the result is linear in parms), and the vector of ones
ParmVectors ==
    {[k \in 0..(NParms - 1) |-> IF k = t THEN c ELSE 0] :
        t \in 0..(NParms - 1), c \in 1..MaxCoef}
    \cup {[k \in 0..(NParms - 1) |-> 1]}

InitRayleigh ==
    /\ fn = "get_rayleigh_reflectance"
    /\ \E pv \in ParmVectors, sunz \in Angles, satz \in Angles :
         args = [parms |-> pv, sunz |-> sunz, satz |-> satz]
    /\ \E az \in AziValues : env = [azidiff |-> az]
    /\ self = NoObject
    /\ log = <<>>

CallRayleigh ==
    /\ fn = "get_rayleigh_reflectance"
    /\ Len(log) < MaxCalls
    /\ log' = Append(log, [args |-> args,
                           ret |-> get_rayleigh_reflectance(args.parms, args.sunz,
                                                            args.satz)])
    /\ args' = get_rayleigh_reflectance_arguments(args)
    /\ UNCHANGED <<fn, env, self>>

(***************************************************************************)
(* AGRIRSR                                                                 *)
(*                                                                         *)
(* Python's None is the string "None".  Raw responses are kept in          *)
(* millionths (1.0 is 1000000) and are multiples of 100, so that the       *)
(* division by 100 is exact; scales and the stored wavelengths are kept in *)
(* thousandths (the scale 0.001 is 1, the scale 1.0 is 1000).  LOG is the  *)
(* module's logger, bound when the file runs as a script; logging changes  *)
(* no state of the model.                                                  *)
(***************************************************************************)
Band(n) == CASE n = 1 -> "ch1" [] n = 2 -> "ch2" [] n = 3 -> "ch3"
             [] n = 4 -> "ch4" [] n = 5 -> "ch5" [] n = 6 -> "ch6"
             [] n = 7 -> "ch7" [] n = 8 -> "ch8" [] n = 9 -> "ch9"
             [] n = 10 -> "ch10" [] n = 11 -> "ch11" [] n = 12 -> "ch12"
             [] n = 13 -> "ch13" [] n = 14 -> "ch14" [] n = 15 -> "ch15"

FY4_AGRI_BAND_NAMES == [n \in 1..15 |-> Band(n)]

\* band -> scale in thousandths, for each platform
BANDNAME_SCALE2MICROMETERS ==
    [platform \in {"FY-4A", "FY-4B"} |->
        IF platform = "FY-4A"
        THEN [b \in {Band(n) : n \in 1..14} |->
                IF b \in {Band(n) : n \in 1..3} THEN 1 ELSE 1000]
        ELSE [b \in {Band(n) : n \in 1..15} |->
                IF b \in {Band(n) : n \in 1..6} THEN 1 ELSE 1000]]

\* d.get(key): None, here 0, when the key is missing
Get(d, key) == IF key \in DOMAIN d THEN d[key] ELSE 0

\* the truth value of a file name
Truthy(name) == name \notin {"None", ""}

\* the object as InstrumentRSR.__init__, _get_options_from_config and
\* _get_bandfilenames leave it: the file name configured for the band is
\* the environment's
InstrumentRSR(bandname, platform_name, bandnames) ==
    [bandname |-> bandname,
     platform_name |-> platform_name,
     bandnames |-> bandnames,
     filenames |-> [b \in {bandname} |-> env.filename],
     requested_band_filename |-> "None",
     filename |-> "None",
     load_scale |-> 0,
     rsr |-> <<>>]

\* np.genfromtxt(self.requested_band_filename, ...): the two columns
genfromtxt(filename) == env.data

\* np.squeeze of the (k, 1) array that indexing with np.argwhere's (k, 1)
\* index array gives: a single element becomes a 0-d array
Squeeze(column) ==
    IF Len(column) = 1 THEN [ndim |-> 0, flat |-> column]
    ELSE [ndim |-> 1, flat |-> column]

\* response / 100.
Div100(response) == [i \in 1..Len(response) |-> response[i] \div 100]

\* np.argwhere(response > 0.001), as a mask
AboveThreshold(response) == [i \in 1..Len(response) |-> response[i] > 1000]

\* _load cutting on the raw responses, before they are scaled to 0-1
AGRIRSR_load_cut_before_scaling(obj, scale) ==
    LET data == genfromtxt(obj.requested_band_filename)
        wavelength == [i \in 1..Len(data[1]) |-> data[1][i] * scale]
        raw == data[2]
        called == [obj EXCEPT !.load_scale = scale]
        response == IF \E i \in 1..Len(raw) : raw[i] > 1000000
                    THEN Div100(raw) ELSE raw
        pts == AboveThreshold(raw)
    IN  IF raw = <<>>
        THEN [exc |-> "ValueError", self |-> called]
        ELSE [exc |-> "",
              self |-> [called EXCEPT !.rsr =
                          [wavelength |-> Squeeze(Compress(wavelength, pts)),
                           response |-> Squeeze(Compress(response, pts))]]]

\* _load: the object after it, with exc the exception raised ("" if none).
\* load_scale records the call; np.nanmax of an empty array is a ValueError
AGRIRSR_load(obj, scale) ==
    LET data == genfromtxt(obj.requested_band_filename)
        wavelength == [i \in 1..Len(data[1]) |-> data[1][i] * scale]
        raw == data[2]
        called == [obj EXCEPT !.load_scale = scale]
        response == IF \E i \in 1..Len(raw) : raw[i] > 1000000
                    THEN Div100(raw) ELSE raw
        pts == AboveThreshold(response)
    IN  IF raw = <<>>
        THEN [exc |-> "ValueError", self |-> called]
        ELSE [exc |-> "",
              self |-> [called EXCEPT !.rsr =
                          [wavelength |-> Squeeze(Compress(wavelength, pts)),
                           response |-> Squeeze(Compress(response, pts))]]]

\* the look-up falling back on the default scale of _load, 0.001
band_scale_with_default(platform_name, bandname) ==
    IF bandname \in DOMAIN BANDNAME_SCALE2MICROMETERS[platform_name]
    THEN BANDNAME_SCALE2MICROMETERS[platform_name][bandname]
    ELSE 1

\* BANDNAME_SCALE2MICROMETERS[platform_name].get(bandname)
band_scale(platform_name, bandname) ==
    Get(BANDNAME_SCALE2MICROMETERS[platform_name], bandname)

\* AGRIRSR.__init__
AGRIRSR_init(bandname, platform_name) ==
    LET base == IF platform_name = "FY-4A"
                THEN InstrumentRSR(bandname, platform_name,
                                   SubSeq(FY4_AGRI_BAND_NAMES, 1, 14))
                ELSE InstrumentRSR(bandname, platform_name, FY4_AGRI_BAND_NAMES)
    IN  IF Truthy(base.filenames[bandname]) /\ env.exists
        THEN LET found == [base EXCEPT
                             !.requested_band_filename = base.filenames[bandname]]
                 scale == band_scale(platform_name, bandname)
             IN  IF scale # 0
                 THEN LET loaded == AGRIRSR_load(found, scale)
                      IN  IF loaded.exc # "" THEN loaded
                          ELSE [exc |-> "",
                                self |-> [loaded.self EXCEPT !.filename =
                                            loaded.self.requested_band_filename]]
                 ELSE [exc |-> "AttributeError", self |-> found]
        ELSE [exc |-> "",
              self |-> [base EXCEPT !.filename = base.requested_band_filename]]

MaxRows == 2       \* rows of a raw response file
BandNames == {"ch1", "ch4", "ch7", "ch15"}
FileNames == {"None", "", "/rsr/band.txt"}
RawWavelengths == {400, 500}
RawResponses == {0, 1000, 2000, 200000, 1000000, 50000000}

InitAGRIRSR ==
    /\ fn = "AGRIRSR"
    /\ \E b \in BandNames, p \in DOMAIN BANDNAME_SCALE2MICROMETERS :
         args = [bandname |-> b, platform_name |-> p]
    /\ \E f \in FileNames, e \in BOOLEAN :
         \E n \in 0..MaxRows :
            \E w \in [1..n -> RawWavelengths], r \in [1..n -> RawResponses] :
               \* the content of a file that is never opened is left out
               /\ (Truthy(f) /\ e) \/ n = 0
               /\ env = [filename |-> f, exists |-> e, data |-> <<w, r>>]
    /\ self = NoObject
    /\ log = <<>>

\* AGRIRSR(bandname, platform_name)
Construct ==
    /\ fn = "AGRIRSR"
    /\ Len(log) < MaxCalls
    /\ LET made == AGRIRSR_init(args.bandname, args.platform_name)
       IN  /\ self' = made.self
           /\ log' = Append(log, [args |-> args, ret |-> made])
    /\ UNCHANGED <<fn, args, env>>

Init ==
    \/ InitSortData
    \/ InitConvert
    \/ InitCentralWave
    \/ InitRayleigh
    \/ InitAGRIRSR

Next ==
    \/ CallSortData
    \/ CallConvert
    \/ CallCentralWave
    \/ ScaleWeight
    \/ CallRayleigh
    \/ Construct

Spec == Init /\ [][Next]_vars

(***************************************************************************)
(* Properties                                                              *)
(***************************************************************************)
StrictlyIncreasing(a) == \A i \in 1..(Len(a) - 1) : a[i] < a[i + 1]

Range(a) == {a[i] : i \in DOMAIN a}

Calls == {log[i] : i \in 1..Len(log)}

\* C1: for every pair of equal-length inputs, sort_data returns an x array
\* that is strictly increasing (so it holds no duplicate).
C1_ReturnsStrictlyIncreasing ==
    fn = "sort_data" =>
        \A c \in Calls : c.ret.exc = "" /\ StrictlyIncreasing(c.ret.x)

\* C2: what sort_data returns is an x and a y array of the same length, the
\* returned x values are the distinct x values of the input, and every
\* returned pair (x[i], y[i]) is the pair (x_vals[k], y_vals[k]) of one
\* index k of the input.
C2_PairingKept ==
    fn = "sort_data" =>
        \A c \in Calls :
            c.ret.exc = "" =>
                /\ Len(c.ret.x) = Len(c.ret.y)
                /\ Range(c.ret.x) = Range(c.args.x_vals)
                /\ \A i \in 1..Len(c.ret.x) :
                     \E k \in 1..Len(c.args.x_vals) :
                        /\ c.ret.x[i] = c.args.x_vals[k]
                        /\ c.ret.y[i] = c.args.y_vals[k]

\* an unsorted input with a repeated x value whose samples differ in y
C2_Witness ==
    /\ fn = "sort_data"
    /\ \E c \in Calls :
        /\ c.ret.exc = ""
        /\ ~ StrictlyIncreasing(c.args.x_vals)
        /\ \E i, j \in 1..Len(c.args.x_vals) :
            /\ i < j
            /\ c.args.x_vals[i] = c.args.x_vals[j]
            /\ c.args.y_vals[i] # c.args.y_vals[j]
        /\ \E i, j \in 1..Len(c.args.x_vals) :
            i < j /\ c.args.x_vals[i] > c.args.x_vals[j]
        /\ Len(c.ret.x) = 2


\* b is a read from its last element to its first
IsReversal(b, a) ==
    /\ Len(b) = Len(a)
    /\ \A i \in 1..Len(a) : b[i] = a[Len(a) + 1 - i]

\* wn[i] is the wavenumber in cm-1 of the wavelength in micrometers at the
\* mirrored position: 1e-4 * wl * wn = 1
IsMirroredWavenumber(wn, wl) ==
    /\ Len(wn) = Len(wl)
    /\ \A i \in 1..Len(wl) : wn[i] * wl[Len(wl) + 1 - i] = 10000

\* the (channel, detector) pairs of a data set
Detectors(rsr) ==
    {cd \in (DOMAIN rsr) \X {"det-1", "det-2"} : cd[2] \in DOMAIN rsr[cd[1]]}

\* C3: for every channel and detector convert2wavenumber replaces
\* 'wavelength' by 'wavenumber', whose element i is the wavenumber in cm-1
\* (1e-4 * wavelength * wavenumber = 1) of the wavelength at the mirrored
\* position; every other array, also inside a nested dict, is reversed the
\* same way; the second value is {'unit': 'cm-1', 'si_scale': 100.0}.
C3_ConvertedAndReversed ==
    fn = "convert2wavenumber" =>
        \A c \in Calls :
            LET rsr == c.args.rsr
                retv == c.ret[1]
            IN  /\ DOMAIN retv = DOMAIN rsr
                /\ \A ch \in DOMAIN rsr : DOMAIN retv[ch] = DOMAIN rsr[ch]
                /\ \A cd \in Detectors(rsr) :
                     LET d == rsr[cd[1]][cd[2]]
                         r == retv[cd[1]][cd[2]]
                     IN  /\ "wavelength" \notin DOMAIN r
                         /\ DOMAIN r = (DOMAIN d \ {"wavelength"}) \cup {"wavenumber"}
                         /\ r["wavenumber"].type = "ndarray"
                         /\ IsMirroredWavenumber(r["wavenumber"].val, d["wavelength"].val)
                         /\ \A k \in DOMAIN d \ {"wavelength"} :
                              /\ r[k].type = d[k].type
                              /\ IF d[k].type = "dict"
                                 THEN /\ DOMAIN r[k].val = DOMAIN d[k].val
                                      /\ \A name \in DOMAIN d[k].val :
                                           IsReversal(r[k].val[name], d[k].val[name])
                                 ELSE IsReversal(r[k].val, d[k].val)
                /\ c.ret[2] = [unit |-> "cm-1", si_scale |-> 100]

\* a converted data set whose wavelengths and responses read differently
\* from the two ends
C3_Witness ==
    /\ fn = "convert2wavenumber"
    /\ \E c \in Calls :
        LET d1 == c.args.rsr["ch1"]["det-1"]
            d2 == c.args.rsr["ch1"]["det-2"]
        IN  /\ Len(d1["wavelength"].val) = 2
            /\ d1["wavelength"].val[1] # d1["wavelength"].val[2]
            /\ d1["response"].val[1] # d1["response"].val[2]
            /\ d2["NOAA-19"].val["response"][1] # d2["NOAA-19"].val["response"][2]
            /\ c.ret[1]["ch1"]["det-1"]["wavenumber"].val[1] = 2000

\* C8: a strictly increasing 'wavelength' array of positive values gives a
\* strictly increasing 'wavenumber' array, as long as every returned
\* response array of the channel and detector.
C8_OrderingKept ==
    fn = "convert2wavenumber" =>
        \A c \in Calls :
            \A cd \in Detectors(c.args.rsr) :
                LET wl == c.args.rsr[cd[1]][cd[2]]["wavelength"].val
                    r == c.ret[1][cd[1]][cd[2]]
                IN  (StrictlyIncreasing(wl) /\ \A i \in 1..Len(wl) : wl[i] > 0) =>
                        /\ StrictlyIncreasing(r["wavenumber"].val)
                        /\ \A k \in DOMAIN r \ {"wavenumber"} :
                             IF r[k].type = "dict"
                             THEN \A name \in DOMAIN r[k].val :
                                    Len(r[k].val[name]) = Len(r["wavenumber"].val)
                             ELSE Len(r[k].val) = Len(r["wavenumber"].val)

\* two increasing positive wavelengths, converted
C8_Witness ==
    /\ fn = "convert2wavenumber"
    /\ \E c \in Calls :
        /\ c.args.rsr["ch1"]["det-2"]["wavelength"].val = <<2, 5>>
        /\ c.ret[1]["ch1"]["det-2"]["wavenumber"].val = <<2000, 5000>>

(***************************************************************************)
(* The polynomial of total degree 5 in two variables.                      *)
(***************************************************************************)
RECURSIVE Pow(_, _)
Pow(b, e) == IF e = 0 THEN 1 ELSE b * Pow(b, e - 1)

\* the exponent pairs (i, j) of x^i y^j with i + j <= 5
ExponentPairs == {p \in (0..5) \X (0..5) : p[1] + p[2] <= 5}

\* the coefficient of x^i y^j: the constant, x^1..x^5, y^1..y^5, then the
\* cross terms by rising power of x
TermIndex(p) ==
    LET i == p[1]
        j == p[2]
    IN  CASE j = 0 -> i
          [] i = 0 /\ j > 0 -> 5 + j
          [] i = 1 /\ j > 0 -> 10 + j
          [] i = 2 /\ j > 0 -> 14 + j
          [] i = 3 /\ j > 0 -> 17 + j
          [] i = 4 /\ j > 0 -> 19 + j

ExponentsOf(k) == CHOOSE p \in ExponentPairs : TermIndex(p) = k

Polynomial(parms, x, y) ==
    SumSeq([n \in 1..NParms |->
              parms[n - 1] * Pow(x, ExponentsOf(n - 1)[1]) * Pow(y, ExponentsOf(n - 1)[2])])

\* C4: get_rayleigh_reflectance returns the polynomial of total degree 5 in
\* two variables with 21 coefficients, in which every exponent pair (i, j)
\* with i + j <= 5 occurs exactly once (x the secant of sunz, y the secant
\* of satz).
C4_Degree5Polynomial ==
    fn = "get_rayleigh_reflectance" =>
        /\ Cardinality(ExponentPairs) = NParms
        /\ \A k \in 0..(NParms - 1) :
             Cardinality({p \in ExponentPairs : TermIndex(p) = k}) = 1
        /\ \A c \in Calls :
             c.ret = Polynomial(c.args.parms, Secant(c.args.sunz), Secant(c.args.satz))

\* the coefficient of a cross term alone, with secants that tell the two
\* exponents apart
C4_Witness ==
    /\ fn = "get_rayleigh_reflectance"
    /\ \E c \in Calls :
        /\ c.args.parms[19] = 1
        /\ \A k \in 0..18 : c.args.parms[k] = 0
        /\ c.args.parms[20] = 0
        /\ c.args.sunz = 60
        /\ c.args.satz = 180
        /\ c.ret = 8

\* C5: the variable x of the polynomial is the relative azimuth difference
\* angle and y is the secant of the satellite zenith angle.
C5_XIsAzimuthDifference ==
    fn = "get_rayleigh_reflectance" =>
        \A c \in Calls :
            c.ret = Polynomial(c.args.parms, env.azidiff, Secant(c.args.satz))

(***************************************************************************)
(* Purity                                                                  *)
(***************************************************************************)
Utilities ==
    {"convert2wavenumber", "get_central_wave", "sort_data", "get_rayleigh_reflectance"}

Min(S) == CHOOSE m \in S : \A v \in S : m <= v

Max(S) == CHOOSE m \in S : \A v \in S : m >= v

\* wav strictly increasing with two samples or more, resp * weight
\* non-negative everywhere and positive somewhere
CentroidDefined(a) ==
    LET g == Mul(a.resp, a.weight)
    IN  /\ Len(a.wav) >= 2
        /\ StrictlyIncreasing(a.wav)
        /\ \A i \in 1..Len(g) : g[i] >= 0
        /\ \E i \in 1..Len(g) : g[i] > 0

\* weight b is weight a times the positive constant k
IsScaled(b, a, k) ==
    /\ Len(b) = Len(a)
    /\ \A i \in 1..Len(a) : b[i] = k * a[i]

\* C7: for a strictly increasing wav of two samples or more and a
\* non-negative, somewhere positive resp * weight, get_central_wave returns a
\* value between the smallest and the largest wav, and the same value when
\* weight is multiplied by a positive constant.
C7_CentroidInRange ==
    fn = "get_central_wave" =>
        \A c \in Calls :
            CentroidDefined(c.args) =>
                /\ c.ret.den > 0
                /\ Min(Range(c.args.wav)) * c.ret.den <= c.ret.num
                /\ c.ret.num <= Max(Range(c.args.wav)) * c.ret.den
                /\ \A d \in Calls :
                     (/\ d.args.wav = c.args.wav
                      /\ d.args.resp = c.args.resp
                      /\ \E k \in 1..3 : IsScaled(d.args.weight, c.args.weight, k)) =>
                        d.ret = c.ret

\* a centroid strictly inside the range under a weight that differs from
\* sample to sample, computed again with the weight tripled
C7_Witness ==
    /\ fn = "get_central_wave"
    /\ Len(log) = 2
    /\ CentroidDefined(log[1].args)
    /\ log[1].args.weight = <<2, 2, -1>>
    /\ IsScaled(log[2].args.weight, log[1].args.weight, 3)
    /\ log[1].args.wav = <<1, 2, 4>>
    /\ log[1].args.resp = <<1, 1, 0>>
    /\ log[1].ret = [num |-> 7, den |-> 4]
    /\ log[2].ret = log[1].ret

RECURSIVE KeptPositions(_, _)
KeptPositions(keep, n) ==
    IF n = 0 THEN <<>>
    ELSE KeptPositions(keep, n - 1) \o (IF keep[n] THEN <<n>> ELSE <<>>)

\* C10: after _load the responses are scaled to 0-1 (all divided by 100
\* when a raw value exceeds 1, else none), the samples kept are those whose
\* scaled response exceeds 0.001, and the stored 'wavelength' and 'response'
\* hold as many values, each wavelength the raw wavelength of the same
\* sample times scale.
C10_LoadScalesAndCuts ==
    fn = "AGRIRSR" =>
        \A c \in Calls :
            DOMAIN c.ret.self.rsr # {} =>
                LET raw == env.data[2]
                    rawwl == env.data[1]
                    rsr == c.ret.self.rsr
                    percent == \E i \in 1..Len(raw) : raw[i] > 1000000
                    keep == [i \in 1..Len(raw) |->
                               IF percent THEN raw[i] > 100 * 1000 ELSE raw[i] > 1000]
                    kept == KeptPositions(keep, Len(raw))
                IN  /\ DOMAIN rsr = {"wavelength", "response"}
                    /\ Len(rsr["response"].flat) = Len(kept)
                    /\ Len(rsr["wavelength"].flat) = Len(rsr["response"].flat)
                    /\ rsr["wavelength"].ndim = rsr["response"].ndim
                    /\ \A j \in 1..Len(kept) :
                         /\ rsr["response"].flat[j] * (IF percent THEN 100 ELSE 1)
                               = raw[kept[j]]
                         /\ rsr["response"].flat[j] > 1000
                         /\ rsr["response"].flat[j] <= 1000000
                         /\ rsr["wavelength"].flat[j]
                               = rawwl[kept[j]] * c.ret.self.load_scale

\* a file in percent of which the first sample is cut and the second kept
C10_Witness ==
    /\ fn = "AGRIRSR"
    /\ \E c \in Calls :
        /\ env.data = <<(<<400, 500>>), (<<1000, 50000000>>)>>
        /\ c.args = [bandname |-> "ch1", platform_name |-> "FY-4B"]
        /\ c.ret.exc = ""
        /\ c.ret.self.rsr["response"].flat = <<500000>>
        /\ c.ret.self.rsr["wavelength"].flat = <<500>>

=============================================================================
